---- MODULE Spec2Model ----
(***************************************************************************)
(* Model of the navign robot vision service (robot/vision).                *)
(*                                                                         *)
(*  - VisionService: the lifecycle calls start() / stop() / ~VisionService *)
(*    made by one controlling thread, interleaved with the loop thread     *)
(*    that runs processingLoop().  Each thread has a program counter; one  *)
(*    action is one block of the source between two points where the       *)
(*    other thread can be observed.                                        *)
(*  - CoordinateTransform: the pose/calibration state and the geometric    *)
(*    queries, computed in exact rational arithmetic.                      *)
(*                                                                         *)
(* Time is a millisecond clock `now` that advances only while the loop     *)
(* thread is inside a call that takes time (frame read, detectors, sleep). *)
(***************************************************************************)
EXTENDS Integers, Sequences, FiniteSets, TLC

VARIABLES
    \* ---- VisionService members (vision_service.hpp:58-79)
    running_,                 \* std::atomic<bool> running_
    camOpen,                  \* camera_.isOpened()
    target_fps_,              \* int target_fps_
    frame_count_,             \* uint32_t frame_count_
    total_frames_processed_,  \* uint32_t
    total_tags_detected_,     \* uint32_t
    total_objects_detected_,  \* uint32_t
    calibValid,               \* camera_calibration_->isValid()
    modelLoaded,              \* object_detector_: !net_.empty()
    \* ---- the controlling thread
    cpc,                      \* position of the controlling thread
    inDtor,                   \* stop() is being run by ~VisionService
    last,                     \* outcome of the last lifecycle call that returned
    startDiag,                \* warnings printed by the start() call in progress / last made
    \* ---- the loop thread (processing_thread_)
    lpc,                      \* position of the loop thread; "none": no thread object to join
    frame_duration,           \* local of processingLoop (line 100)
    start_time,               \* local of the iteration (line 103)
    now,                      \* steady_clock, in ms
    \* ---- what one iteration did (observations of the run, not program state)
    iterKind,                 \* "none" | "ok" | "failed": how the last finished iteration ended
    slept,                    \* ms slept at the end of the last finished iteration
    bodyTime,                 \* real ms the calls of the current / last iteration took
    prevBody,                 \* bodyTime of the iteration before
    calls,                    \* what the current / last iteration called
    snap,                     \* the four counters when the current / last iteration began
    statusCount,              \* status summaries printed so far
    prevKind,                 \* iterKind of the iteration before
    detections,               \* what the tag library found in the frame (zarray_t* detections)
    tags,                     \* the vector AprilTagDetector::detect returned for it
    modelWarnings,            \* "Model not loaded" lines written since the loop began
    \* ---- CoordinateTransform members (coordinate_transform.hpp:80-87)
    has_calibration_,
    has_pose_,
    camera_matrix_,           \* <<fx, fy, cx, cy>>
    rotation_,                \* 3x3 integer matrix
    translation_,             \* integer 3-vector
    query                     \* the last geometric query made and what it returned

svcVars == <<running_, camOpen, target_fps_, frame_count_, total_frames_processed_,
             total_tags_detected_, total_objects_detected_, calibValid, modelLoaded,
             cpc, inDtor, last, startDiag, lpc, frame_duration, start_time, now>>
obsVars == <<iterKind, slept, bodyTime, prevBody, calls, snap, statusCount, prevKind,
             detections, tags, modelWarnings>>
ctVars  == <<has_calibration_, has_pose_, camera_matrix_, rotation_, translation_, query>>
vars    == <<svcVars, obsVars, ctVars>>

counters == <<frame_count_, total_frames_processed_, total_tags_detected_,
              total_objects_detected_>>

----------------------------------------------------------------------------
(* Bounds of the model *)
MaxMarkers == 2
MaxFrames == 2
MaxTime == 140
LongFrames == 205
LongTime == 6800

(* Program constants *)
DefaultFps == 30
StatusEvery == 100
BackoffMs == 100

(* Inputs *)
FpsInputs == {15, 30}
FrameTimes == {5}
DetectTimes == {10, 50}
TagCounts == {0, 1}
ObjectCounts == {0, 1}
CalibOutcomes == {"ok", "absent", "empty"}
ModelOutcomes == {"ok", "empty", "throws"}

Max(a, b) == IF a >= b THEN a ELSE b

----------------------------------------------------------------------------
(* Construction: VisionService::VisionService and the member initialisers. *)
NoQuery == [op |-> "none"]

Init ==
    /\ running_ = FALSE
    /\ camOpen = FALSE
    /\ target_fps_ = DefaultFps
    /\ frame_count_ = 0
    /\ total_frames_processed_ = 0
    /\ total_tags_detected_ = 0
    /\ total_objects_detected_ = 0
    /\ calibValid = FALSE
    /\ modelLoaded = FALSE
    /\ cpc = "idle"
    /\ inDtor = FALSE
    /\ last = "none"
    /\ startDiag = {}
    /\ lpc = "none"
    /\ frame_duration = 0
    /\ start_time = 0
    /\ now = 0
    /\ iterKind = "none"
    /\ slept = 0
    /\ bodyTime = 0
    /\ prevBody = 0
    /\ calls = {}
    /\ snap = <<0, 0, 0, 0>>
    /\ statusCount = 0
    /\ prevKind = "none"
    /\ detections = <<>>
    /\ tags = <<>>
    /\ modelWarnings = 0
    /\ has_calibration_ = FALSE
    /\ has_pose_ = FALSE
    /\ camera_matrix_ = <<0, 0, 0, 0>>
    /\ rotation_ = <<<<0, 0, 0>>, <<0, 0, 0>>, <<0, 0, 0>>>>
    /\ translation_ = <<0, 0, 0>>
    /\ query = NoQuery

loopVars == <<lpc, frame_duration, start_time, now>>
stepVars == <<iterKind, slept, bodyTime, prevBody, calls, snap, statusCount, prevKind,
              detections, tags, modelWarnings>>

----------------------------------------------------------------------------
(* The controlling thread: configuration *)

\* setFrameRate(fps), called between lifecycle calls while stopped (as main does).
\* The specifications below run the service at its default rate.
SetFrameRate(fps) ==
    /\ cpc = "idle"
    /\ ~running_
    /\ target_fps_ # fps
    /\ target_fps_' = fps
    /\ UNCHANGED <<running_, camOpen, counters, calibValid, modelLoaded, cpc, inDtor,
                   last, startDiag, loopVars, obsVars, ctVars>>

\* std::atoi (main.cpp:33) on the text after --fps, given as its characters: leading
\* blanks, an optional sign, then digits up to the first character that is none; text
\* without a digit there gives 0
Digits == <<"0", "1", "2", "3", "4", "5", "6", "7", "8", "9">>

IsDigit(c) == \E k \in 1..10 : Digits[k] = c

DigitValue(c) == (CHOOSE k \in 1..10 : Digits[k] = c) - 1

RECURSIVE SkipBlanks(_, _)
SkipBlanks(text, i) ==
    IF i <= Len(text) /\ text[i] = " " THEN SkipBlanks(text, i + 1) ELSE i

RECURSIVE AtoiDigits(_, _, _)
AtoiDigits(text, i, acc) ==
    IF i <= Len(text) /\ IsDigit(text[i])
       THEN AtoiDigits(text, i + 1, 10 * acc + DigitValue(text[i]))
       ELSE acc

Atoi(text) ==
    LET i == SkipBlanks(text, 1)
        signed == i <= Len(text) /\ text[i] \in {"+", "-"}
        value == AtoiDigits(text, IF signed THEN i + 1 ELSE i, 0)
    IN  IF signed /\ text[i] = "-" THEN -value ELSE value

\* Texts given after --fps
FpsTexts == {<<"3", "0">>, <<"1", "5">>, <<"0">>, <<"a", "b", "c">>, <<"-", "5">>,
             <<" ", "+", "6", "0", "f", "p", "s">>, <<"2", "0", "0", "0">>, <<>>}

\* main, lines 32-33 and 50: the rate given on the command line goes to setFrameRate
\* as atoi returned it, before the first start()
MainFrameRate(text) ==
    /\ last = "none"
    /\ SetFrameRate(Atoi(text))

----------------------------------------------------------------------------
(* The controlling thread: start() *)

\* (variant) start() without the guard on running_
StartCheckNoGuard ==
    /\ cpc = "idle"
    /\ startDiag' = {}
    /\ cpc' = "start_open"
    /\ UNCHANGED <<running_, camOpen, target_fps_, counters, calibValid, modelLoaded,
                   inDtor, last, loopVars, obsVars, ctVars>>

\* start(), lines 25-31: the guard on running_
StartCheck ==
    /\ cpc = "idle"
    /\ IF running_
          THEN /\ last' = "start_already_running"
               /\ startDiag' = {"already_running"}
               /\ cpc' = "idle"
          ELSE /\ startDiag' = {}
               /\ cpc' = "start_open"
               /\ last' = last
    /\ UNCHANGED <<running_, camOpen, target_fps_, counters, calibValid, modelLoaded,
                   inDtor, loopVars, obsVars, ctVars>>

\* (variant) start() goes on although the frame source did not open
StartOpenNoCheck(ok) ==
    /\ cpc = "start_open"
    /\ camOpen' = ok
    /\ cpc' = "start_calib"
    /\ UNCHANGED <<last, startDiag>>
    /\ UNCHANGED <<running_, target_fps_, counters, calibValid, modelLoaded,
                   inDtor, loopVars, obsVars, ctVars>>

\* start(), lines 33-45: open the frame source, give up if it did not open, configure it
StartOpen(ok) ==
    /\ cpc = "start_open"
    /\ camOpen' = ok
    /\ IF ok
          THEN /\ cpc' = "start_calib"
               /\ UNCHANGED <<last, startDiag>>
          ELSE /\ cpc' = "idle"
               /\ last' = "start_open_failed"
               /\ startDiag' = startDiag \cup {"open_failed"}
    /\ UNCHANGED <<running_, target_fps_, counters, calibValid, modelLoaded,
                   inDtor, loopVars, obsVars, ctVars>>

\* (variant) setCalibration starts the object afresh and drops the pose
SetCalibrationClearsPose(camera_matrix) ==
    /\ camera_matrix_' = camera_matrix
    /\ has_calibration_' = TRUE
    /\ has_pose_' = FALSE
    /\ UNCHANGED <<rotation_, translation_>>

\* CoordinateTransform::setCalibration (coordinate_transform.cpp:6-10)
SetCalibration(camera_matrix) ==
    /\ camera_matrix_' = camera_matrix
    /\ has_calibration_' = TRUE
    /\ UNCHANGED <<has_pose_, rotation_, translation_>>

\* CoordinateTransform::setCameraPose (coordinate_transform.cpp:12-16)
SetCameraPose(rotation, translation) ==
    /\ rotation_' = rotation
    /\ translation_' = translation
    /\ has_pose_' = TRUE
    /\ UNCHANGED <<has_calibration_, camera_matrix_>>

\* A sample camera matrix <<fx, fy, cx, cy>> read from calibration.yml
FileCameraMatrix == <<2, 2, 1, 1>>

\* (variant) start() gives up when the calibration does not load
StartCalibFatal(outcome) ==
    /\ cpc = "start_calib"
    /\ calibValid' = CASE outcome = "ok" -> TRUE
                       [] outcome = "absent" -> calibValid
                       [] OTHER -> FALSE
    /\ IF outcome = "ok"
          THEN /\ SetCalibration(FileCameraMatrix)
               /\ cpc' = "start_load"
               /\ UNCHANGED <<startDiag, last>>
          ELSE /\ UNCHANGED <<has_calibration_, camera_matrix_, has_pose_, rotation_,
                               translation_>>
               /\ startDiag' = startDiag \cup {"no_calibration"}
               /\ cpc' = "idle"
               /\ last' = "start_no_calibration"
    /\ UNCHANGED <<running_, camOpen, target_fps_, counters, modelLoaded, inDtor,
                   loopVars, obsVars, query>>

\* start(), lines 47-54 with CameraCalibration::load: "ok" reads a camera matrix,
\* "absent" is a file that does not open (load says so and touches nothing), "empty"
\* a file that opens and holds no camera matrix (is_valid becomes false)
StartCalib(outcome) ==
    /\ cpc = "start_calib"
    /\ cpc' = "start_load"
    /\ calibValid' = CASE outcome = "ok" -> TRUE
                       [] outcome = "absent" -> calibValid
                       [] OTHER -> FALSE
    /\ IF outcome = "ok"
          THEN /\ SetCalibration(FileCameraMatrix)
               /\ startDiag' = startDiag
          ELSE /\ UNCHANGED <<has_calibration_, camera_matrix_, has_pose_, rotation_,
                               translation_>>
               /\ startDiag' = startDiag \cup {"no_calibration"}
    /\ UNCHANGED <<running_, camOpen, target_fps_, counters, modelLoaded, inDtor, last,
                   loopVars, obsVars, query>>

\* start(), lines 56-70: the detection model ("ok", "empty": readNet returns an empty
\* net, "throws": readNet throws and net_ keeps its value), the class names, and the
\* messaging layer, whose initialisation always reports failure (lines 172-177)
StartLoad(model, namesOk) ==
    /\ cpc = "start_load"
    /\ cpc' = "start_store"
    /\ modelLoaded' = CASE model = "ok" -> TRUE
                        [] model = "empty" -> FALSE
                        [] OTHER -> modelLoaded
    /\ startDiag' = startDiag
                    \cup (IF model = "ok" THEN {} ELSE {"model_failed"})
                    \cup (IF namesOk THEN {} ELSE {"names_failed"})
                    \cup {"zenoh_failed"}
    /\ UNCHANGED <<running_, camOpen, target_fps_, counters, calibValid, inDtor, last,
                   loopVars, obsVars, ctVars>>

\* start(), line 73
StartStore ==
    /\ cpc = "start_store"
    /\ running_' = TRUE
    /\ cpc' = "start_spawn"
    /\ UNCHANGED <<camOpen, target_fps_, counters, calibValid, modelLoaded, inDtor, last,
                   startDiag, loopVars, obsVars, ctVars>>

\* start(), lines 74-77: processing_thread_ = std::thread(...); assigning over a
\* joinable thread calls std::terminate
StartSpawn ==
    /\ cpc = "start_spawn"
    /\ IF lpc = "none"
          THEN /\ lpc' = "init"
               /\ cpc' = "idle"
               /\ last' = "start_ok"
          ELSE /\ cpc' = "terminated"
               /\ UNCHANGED <<lpc, last>>
    /\ UNCHANGED <<running_, camOpen, target_fps_, counters, calibValid, modelLoaded,
                   inDtor, startDiag, frame_duration, start_time, now, obsVars, ctVars>>

----------------------------------------------------------------------------
(* The controlling thread: stop() and ~VisionService *)

Returned == IF inDtor THEN "destroyed" ELSE "idle"

\* stop(), lines 80-83; dtor: the call is the one ~VisionService makes (lines 21-23)
StopCheck(dtor) ==
    /\ cpc = "idle"
    /\ inDtor' = dtor
    /\ IF ~running_
          THEN /\ last' = "stop_noop"
               /\ cpc' = IF dtor THEN "destroyed" ELSE "idle"
          ELSE /\ cpc' = "stop_store"
               /\ last' = last
    /\ UNCHANGED <<running_, camOpen, target_fps_, counters, calibValid, modelLoaded,
                   startDiag, loopVars, obsVars, ctVars>>

\* (variant) stop() clears the flag and goes straight to the release
StopStoreSkipJoin ==
    /\ cpc = "stop_store"
    /\ running_' = FALSE
    /\ cpc' = "stop_release"
    /\ UNCHANGED <<camOpen, target_fps_, counters, calibValid, modelLoaded, inDtor, last,
                   startDiag, loopVars, obsVars, ctVars>>

\* stop(), lines 85-86
StopStore ==
    /\ cpc = "stop_store"
    /\ running_' = FALSE
    /\ cpc' = "stop_join"
    /\ UNCHANGED <<camOpen, target_fps_, counters, calibValid, modelLoaded, inDtor, last,
                   startDiag, loopVars, obsVars, ctVars>>

\* (variant) stop() goes on without waiting for processingLoop to return
StopJoinNoWait ==
    /\ cpc = "stop_join"
    /\ cpc' = "stop_release"
    /\ UNCHANGED <<running_, camOpen, target_fps_, counters, calibValid, modelLoaded,
                   inDtor, last, startDiag, loopVars, obsVars, ctVars>>

\* stop(), lines 88-90: join() blocks until processingLoop has returned
StopJoin ==
    /\ cpc = "stop_join"
    /\ lpc \in {"none", "done"}
    /\ lpc' = "none"
    /\ cpc' = "stop_release"
    /\ UNCHANGED <<running_, camOpen, target_fps_, counters, calibValid, modelLoaded,
                   inDtor, last, startDiag, frame_duration, start_time, now, obsVars,
                   ctVars>>

\* stop(), lines 92-97
StopRelease ==
    /\ cpc = "stop_release"
    /\ camOpen' = FALSE
    /\ last' = "stop_done"
    /\ cpc' = Returned
    /\ UNCHANGED <<running_, target_fps_, counters, calibValid, modelLoaded, inDtor,
                   startDiag, loopVars, obsVars, ctVars>>

----------------------------------------------------------------------------
(* AprilTagDetector.  A detection is what the tag library reports for one marker and
   what its pose solve (estimate_tag_pose) would yield for it: the marker's id, whether
   the solve converges to a finite pose, and the pose.R / pose.t it leaves.  A result is
   an AprilTagResult: an unset cv::Mat is <<>>, a default cv::Point3d is <<0, 0, 0>>. *)

IdentityRotation == <<<<1, 0, 0>>, <<0, 1, 0>>, <<0, 0, 1>>>>
TagIds == {0, 1}
SolveOutcomes == {"converged", "not_converged", "non_finite"}
MarkerTranslations == {<<0, 0, 1>>, <<1, 0, 2>>}
Detections == [id : TagIds, solve : SolveOutcomes, R : {IdentityRotation},
               t : MarkerTranslations]
DetectionSeqs == UNION {[1..k -> Detections] : k \in 0..MaxMarkers}

\* the markers the loop sees in a frame: n markers whose solve converges
SampleDetection == [id |-> 0, solve |-> "converged", R |-> IdentityRotation,
                    t |-> <<0, 0, 1>>]
Markers(n) == [i \in 1..n |-> SampleDetection]

\* AprilTagResult as detect() fills it before the pose (apriltag_detector.cpp:63-72)
NewResult(det) == [tag_id |-> det.id, pose_valid |-> FALSE, rotation |-> <<>>,
                   translation |-> <<>>, position |-> <<0, 0, 0>>]

\* estimatePose (lines 88-134): the solve's error is not looked at; rotation,
\* translation and position are written from the solve's pose and true is returned
EstimatePose(det, result) ==
    [ret |-> TRUE,
     result |-> [result EXCEPT !.rotation = det.R, !.translation = det.t,
                               !.position = det.t]]

\* detect, lines 59-80, for one detection; haveMatrix: !camera_matrix.empty()
DetectOne(det, haveMatrix) ==
    IF haveMatrix
       THEN LET est == EstimatePose(det, NewResult(det))
            IN  [est.result EXCEPT !.pose_valid = est.ret]
       ELSE NewResult(det)

\* detect (lines 31-86)
Detect(dets, haveMatrix) == [i \in 1..Len(dets) |-> DetectOne(dets[i], haveMatrix)]

----------------------------------------------------------------------------
(* The loop thread: processingLoop() *)

ctrlVars == <<running_, camOpen, target_fps_, calibValid, modelLoaded, cpc, inDtor,
              last, startDiag>>

\* (variant) the counter is assigned instead of added to
AddCountAssign(total, n) == n

\* counter += n on a uint32_t (lines 114, 115, 126, 142). The runs followed here stay
\* far below 2^32, where the addition does not wrap.
AddCount(total, n) == total + n

\* (variant) the cadence is tested against the index before its increment
StatusDueBeforeIncrement(frameIndex) == (frameIndex - 1) % StatusEvery = 0

\* line 157
StatusDue(frameIndex) == frameIndex % StatusEvery = 0

\* (variant) the sleep ignores the time the iteration took
SleepTimeFullPeriod(period, startStamp, endStamp) == period

\* lines 162-164: sleep_time = frame_duration - (end_time - start_time)
SleepTime(period, startStamp, endStamp) == period - (endStamp - startStamp)

\* The quotient of two ints as C++ computes it, rounded toward zero (b is not 0)
Quot(a, b) ==
    LET q == (IF a < 0 THEN -a ELSE a) \div (IF b < 0 THEN -b ELSE b)
    IN  IF (a < 0) = (b < 0) THEN q ELSE -q

\* What 1000 / 0 may leave in frame_duration on a build where the division does not trap
DivZeroResults == {-1, 0, 1}

\* line 100 with target_fps_ = 0: the integer division by zero is undefined; the
\* process is killed by the trap, or the division yields some value and the loop goes on
LoopInitDivZero ==
    /\ lpc = "init"
    /\ target_fps_ = 0
    /\ \/ /\ lpc' = "fault"
          /\ cpc' = "terminated"
          /\ UNCHANGED <<frame_duration, iterKind, prevKind, modelWarnings>>
       \/ /\ \E q \in DivZeroResults : frame_duration' = q
          /\ lpc' = "top"
          /\ cpc' = cpc
          /\ iterKind' = "none"
          /\ prevKind' = "none"
          /\ modelWarnings' = 0
    /\ UNCHANGED <<running_, camOpen, target_fps_, calibValid, modelLoaded, inDtor, last,
                   startDiag, counters, start_time, now, slept, bodyTime, prevBody, calls,
                   snap, statusCount, ctVars, detections, tags>>

\* line 100, target_fps_ not 0
LoopInit ==
    /\ lpc = "init"
    /\ target_fps_ # 0
    /\ frame_duration' = Quot(1000, target_fps_)
    /\ lpc' = "top"
    /\ iterKind' = "none"
    /\ prevKind' = "none"
    /\ modelWarnings' = 0
    /\ UNCHANGED <<ctrlVars, counters, start_time, now, slept, bodyTime, prevBody, calls,
                   snap, statusCount, ctVars, detections, tags>>

\* (variant) the loop does not test running_
LoopTopNoTest(capFrames, capTime) ==
    /\ lpc = "top"
    /\ frame_count_ < capFrames
    /\ now <= capTime
    /\ start_time' = now
    /\ lpc' = "read"
    /\ bodyTime' = 0
    /\ prevBody' = bodyTime
    /\ calls' = {}
    /\ snap' = counters
    /\ detections' = <<>>
    /\ tags' = <<>>
    /\ UNCHANGED <<ctrlVars, counters, frame_duration, now, iterKind, slept, statusCount,
                   prevKind, ctVars, modelWarnings>>

\* lines 102-103: the test of running_ and, when it holds, the iteration's start stamp.
\* capFrames and capTime bound the run: no iteration begins beyond them.
LoopTop(capFrames, capTime) ==
    /\ lpc = "top"
    /\ IF running_
          THEN /\ frame_count_ < capFrames
               /\ now <= capTime
               /\ start_time' = now
               /\ lpc' = "read"
               /\ bodyTime' = 0
               /\ prevBody' = bodyTime
               /\ calls' = {}
               /\ snap' = counters
               /\ detections' = <<>>
               /\ tags' = <<>>
          ELSE /\ lpc' = "done"
               /\ UNCHANGED <<start_time, bodyTime, prevBody, calls, snap, detections, tags>>
    /\ UNCHANGED <<ctrlVars, counters, frame_duration, now, iterKind, slept, statusCount,
                   prevKind, ctVars, modelWarnings>>

\* lines 105-109: camera_ >> frame takes d ms and yields a frame (ok) or an empty one
LoopRead(ok, d) ==
    /\ lpc = "read"
    /\ now' = now + d
    /\ bodyTime' = bodyTime + d
    /\ lpc' = IF ok THEN "count" ELSE "backoff"
    /\ UNCHANGED <<ctrlVars, counters, frame_duration, start_time, iterKind, slept,
                   prevBody, calls, snap, statusCount, prevKind, ctVars, detections, tags, modelWarnings>>

\* (variant) a failed read leaves the loop
LoopBackoffBreak ==
    /\ lpc = "backoff"
    /\ now' = now + BackoffMs
    /\ slept' = BackoffMs
    /\ iterKind' = "failed"
    /\ prevKind' = iterKind
    /\ lpc' = "done"
    /\ UNCHANGED <<ctrlVars, counters, frame_duration, start_time, bodyTime, prevBody,
                   calls, snap, statusCount, ctVars, detections, tags, modelWarnings>>

\* lines 110-111: sleep, then continue
LoopBackoff ==
    /\ lpc = "backoff"
    /\ now' = now + BackoffMs
    /\ slept' = BackoffMs
    /\ iterKind' = "failed"
    /\ prevKind' = iterKind
    /\ lpc' = "top"
    /\ UNCHANGED <<ctrlVars, counters, frame_duration, start_time, bodyTime, prevBody,
                   calls, snap, statusCount, ctVars, detections, tags, modelWarnings>>

\* (variant) only the frame index is incremented
LoopCountIndexOnly ==
    /\ lpc = "count"
    /\ frame_count_' = AddCount(frame_count_, 1)
    /\ lpc' = "tags"
    /\ UNCHANGED <<ctrlVars, total_frames_processed_, total_tags_detected_,
                   total_objects_detected_, frame_duration, start_time, now, stepVars,
                   ctVars>>

\* lines 114-115
LoopCount ==
    /\ lpc = "count"
    /\ frame_count_' = AddCount(frame_count_, 1)
    /\ total_frames_processed_' = AddCount(total_frames_processed_, 1)
    /\ lpc' = "tags"
    /\ UNCHANGED <<ctrlVars, total_tags_detected_, total_objects_detected_,
                   frame_duration, start_time, now, stepVars, ctVars>>

\* lines 117-138: the camera matrix is passed if the calibration is valid; the tag
\* detector takes d ms, finds dets and returns one result per detection
LoopTags(dets, d) ==
    /\ lpc = "tags"
    /\ detections' = dets
    /\ tags' = Detect(dets, calibValid)
    /\ total_tags_detected_' = AddCount(total_tags_detected_, Len(tags'))
    /\ calls' = calls \cup {"tags"}
    /\ now' = now + d
    /\ bodyTime' = bodyTime + d
    /\ lpc' = "objects"
    /\ UNCHANGED <<ctrlVars, frame_count_, total_frames_processed_,
                   total_objects_detected_, frame_duration, start_time, iterKind, slept,
                   prevBody, snap, statusCount, prevKind, ctVars, modelWarnings>>

\* lines 140-151 with ObjectDetector::detect (object_detector.cpp:79-87): without a
\* loaded model the detector writes "Model not loaded" and returns no object
LoopObjects(n) ==
    /\ lpc = "objects"
    /\ modelLoaded \/ n = 0
    /\ modelWarnings' = IF modelLoaded THEN modelWarnings ELSE modelWarnings + 1
    /\ total_objects_detected_' = AddCount(total_objects_detected_, n)
    /\ calls' = calls \cup {"objects"}
    /\ lpc' = "status"
    /\ UNCHANGED <<ctrlVars, frame_count_, total_frames_processed_, total_tags_detected_,
                   frame_duration, start_time, now, iterKind, slept, bodyTime, prevBody,
                   snap, statusCount, prevKind, ctVars, detections, tags>>

\* publishStatus, line 192: total_frames_processed_ / (frame_count_ / float(target_fps_))
\* as the fraction n / d. The line prints it with six significant digits, which hides
\* the rounding of the two float divisions; d = 0 stands for a figure that is not finite.
AverageFps(total, frameIndex, fps) ==
    LET seconds == [n |-> frameIndex, d |-> fps]
    IN  [n |-> total * seconds.d, d |-> seconds.n]

\* lines 156-159 with publishStatus (lines 187-193)
LoopStatus ==
    /\ lpc = "status"
    /\ IF StatusDue(frame_count_)
          THEN /\ statusCount' = statusCount + 1
               /\ calls' = calls \cup {"status"}
          ELSE UNCHANGED <<statusCount, calls>>
    /\ lpc' = "pace"
    /\ UNCHANGED <<ctrlVars, counters, frame_duration, start_time, now, iterKind, slept,
                   bodyTime, prevBody, snap, prevKind, ctVars, detections, tags, modelWarnings>>

\* lines 161-169; the iteration's locals (the tag results among them) end here
LoopPace ==
    /\ lpc = "pace"
    /\ LET sleep_time == SleepTime(frame_duration, start_time, now)
       IN  IF sleep_time > 0
              THEN /\ now' = now + sleep_time
                   /\ slept' = sleep_time
              ELSE /\ now' = now
                   /\ slept' = 0
    /\ iterKind' = "ok"
    /\ prevKind' = iterKind
    /\ detections' = <<>>
    /\ tags' = <<>>
    /\ lpc' = "top"
    /\ UNCHANGED <<ctrlVars, counters, frame_duration, start_time, bodyTime, prevBody,
                   calls, snap, statusCount, ctVars, modelWarnings>>

----------------------------------------------------------------------------
(* The service: one controlling thread and the loop thread *)

Control ==
    \/ StartCheck
    \/ \E ok \in BOOLEAN : StartOpen(ok)
    \/ \E outcome \in CalibOutcomes : StartCalib(outcome)
    \/ \E model \in ModelOutcomes, namesOk \in BOOLEAN : StartLoad(model, namesOk)
    \/ StartStore
    \/ StartSpawn
    \/ \E dtor \in BOOLEAN : StopCheck(dtor)
    \/ StopStore
    \/ StopJoin
    \/ StopRelease

Loop ==
    \/ LoopInit
    \/ LoopTop(MaxFrames, MaxTime)
    \/ \E ok \in BOOLEAN, d \in FrameTimes : LoopRead(ok, d)
    \/ LoopBackoff
    \/ LoopCount
    \/ \E n \in TagCounts, d \in DetectTimes : LoopTags(Markers(n), d)
    \/ \E n \in ObjectCounts : LoopObjects(n)
    \/ LoopStatus
    \/ LoopPace

Next == Control \/ Loop

Spec == Init /\ [][Next]_vars

(* The same service followed over a long run: every startup resource loads, the
   detectors find nothing, and frame reads may still fail. *)
LongControl ==
    \/ StartCheck
    \/ StartOpen(TRUE)
    \/ StartCalib("ok")
    \/ StartLoad("ok", TRUE)
    \/ StartStore
    \/ StartSpawn
    \/ StopCheck(FALSE)
    \/ StopStore
    \/ StopJoin
    \/ StopRelease

LongLoop ==
    \/ LoopInit
    \/ LoopTop(LongFrames, LongTime)
    \/ \E ok \in BOOLEAN : LoopRead(ok, 0)
    \/ LoopBackoff
    \/ LoopCount
    \/ LoopTags(Markers(0), 10)
    \/ LoopObjects(0)
    \/ LoopStatus
    \/ LoopPace

LongNext == LongControl \/ LongLoop

SpecLong == Init /\ [][LongNext]_vars

(* The service as main runs it: the frame rate comes from the command line, every
   startup resource loads, and the loop may be entered with any rate main passed on. *)
FpsLoop == Loop \/ LoopInitDivZero

FpsNext == (\E text \in FpsTexts : MainFrameRate(text)) \/ LongControl \/ FpsLoop

SpecFps == Init /\ [][FpsNext]_vars

(* The service on a machine whose calibration file may be missing: load either reads
   a camera matrix or cannot open the file. *)
AbsentOutcomes == {"ok", "absent"}

AbsentControl ==
    \/ StartCheck
    \/ \E ok \in BOOLEAN : StartOpen(ok)
    \/ \E outcome \in AbsentOutcomes : StartCalib(outcome)
    \/ \E model \in ModelOutcomes, namesOk \in BOOLEAN : StartLoad(model, namesOk)
    \/ StartStore
    \/ StartSpawn
    \/ \E dtor \in BOOLEAN : StopCheck(dtor)
    \/ StopStore
    \/ StopJoin
    \/ StopRelease

AbsentNext == AbsentControl \/ Loop

SpecAbsent == Init /\ [][AbsentNext]_vars

----------------------------------------------------------------------------
(* CoordinateTransform: exact arithmetic.
   A cv::Mat 3x3 is a triple of rows, a 3x1 a triple of integers.  A cv::Point3d or
   cv::Point2f whose coordinates are rationals is [n |-> numerators, d |-> common
   denominator] in lowest terms with d > 0; d = 0 stands for the non-finite value a
   floating-point division by zero yields.  Lens distortion is zero throughout, so
   cv::undistortPoints maps (u, v) to ((u - cx) / fx, (v - cy) / fy). *)

Abs(x) == IF x < 0 THEN -x ELSE x

RECURSIVE Gcd(_, _)
Gcd(a, b) == IF b = 0 THEN a ELSE Gcd(b, a % b)

GcdSeq(v) == LET G[i \in 0..Len(v)] == IF i = 0 THEN 0 ELSE Gcd(Abs(v[i]), G[i - 1])
             IN  G[Len(v)]

\* the value num / den as a point in lowest terms
Rat(num, den) ==
    IF den = 0
       THEN [n |-> [i \in DOMAIN num |-> 0], d |-> 0]
       ELSE LET g == Gcd(Abs(den), GcdSeq(num))
                sgn == IF den < 0 THEN -1 ELSE 1
            IN  [n |-> [i \in DOMAIN num |-> (sgn * num[i]) \div g], d |-> Abs(den) \div g]

Zero3 == [n |-> <<0, 0, 0>>, d |-> 1]     \* cv::Point3d(0, 0, 0)
Zero2 == [n |-> <<0, 0>>, d |-> 1]        \* cv::Point2f(0, 0)
Pixel(p) == [n |-> p, d |-> 1]

Dot(a, b) == a[1] * b[1] + a[2] * b[2] + a[3] * b[3]
MatVec(M, v) == <<Dot(M[1], v), Dot(M[2], v), Dot(M[3], v)>>
Transpose(M) == [i \in 1..3 |-> [j \in 1..3 |-> M[j][i]]]
Neg(v) == [i \in 1..3 |-> -v[i]]

\* least k with k * k >= x
CeilSqrt(x) == CHOOSE k \in 0..x : k * k >= x /\ (k = 0 \/ (k - 1) * (k - 1) < x)

\* camera_matrix_ entries
Fx == camera_matrix_[1]
Fy == camera_matrix_[2]
Cx == camera_matrix_[3]
Cy == camera_matrix_[4]

\* imageToWorld lines 24-35, getRayDirection lines 103-114: rotation_ * (x, y, 1) for
\* the normalized point (x, y), scaled by fx * fy > 0 to stay in the integers
RayWorldScaled(p) == MatVec(rotation_, <<(p[1] - Cx) * Fy, (p[2] - Cy) * Fx, Fx * Fy>>)

\* imageToWorld line 42, getCameraPosition line 166: -rotation_.t() * translation_
CamPosWorld == MatVec(Transpose(rotation_), Neg(translation_))

\* imageToWorld lines 37-48: |ray_z| < 1e-6 for the ray of unit length, i.e.
\* |D.z| * 10^6 < |D| for the scaled ray D
RayParallel(D) == Abs(D[3]) * 1000000 < CeilSqrt(Dot(D, D))

\* (variant) an intersection at the camera itself counts as behind it
BehindCameraOrAt(D, z_plane) == (z_plane - CamPosWorld[3]) * D[3] <= 0

\* imageToWorld lines 53-55: t = (z_plane - cam_z) / ray_z is negative
BehindCamera(D, z_plane) == (z_plane - CamPosWorld[3]) * D[3] < 0

\* imageToWorld (lines 18-68)
ImageToWorld(p, z_plane) ==
    IF ~has_calibration_ \/ ~has_pose_ THEN Zero3
    ELSE LET D == RayWorldScaled(p)
             C == CamPosWorld
         IN  IF RayParallel(D) THEN Zero3
             ELSE IF BehindCamera(D, z_plane) THEN Zero3
             ELSE \* cam + t * ray, with t * ray = (z_plane - cam_z) * D / D.z
                  Rat(<<C[1] * D[3] + (z_plane - C[3]) * D[1],
                        C[2] * D[3] + (z_plane - C[3]) * D[2],
                        z_plane * D[3]>>, D[3])

\* the call went through to the intersection (lines 60-67)
ImageToWorldSucceeds(p, z_plane) ==
    /\ has_calibration_
    /\ has_pose_
    /\ ~RayParallel(RayWorldScaled(p))
    /\ ~BehindCamera(RayWorldScaled(p), z_plane)

\* worldToImage line 78: rotation_.t() * (world_pt - translation_), times w.d
CameraPtScaled(w) ==
    MatVec(Transpose(rotation_), [i \in 1..3 |-> w.n[i] - translation_[i] * w.d])

\* worldToImage (lines 70-96)
WorldToImage(w) ==
    IF ~has_calibration_ \/ ~has_pose_ THEN Zero2
    ELSE LET c == CameraPtScaled(w)
         IN  Rat(<<Fx * c[1] + Cx * c[3], Fy * c[2] + Cy * c[3]>>, c[3])

\* what imageToWorld writes to std::cerr (lines 20, 49, 56)
ImageToWorldDiag(p, z_plane) ==
    IF ~has_calibration_ \/ ~has_pose_ THEN {"Missing calibration or pose information"}
    ELSE IF RayParallel(RayWorldScaled(p)) THEN {"Ray is parallel to ground plane"}
    ELSE IF BehindCamera(RayWorldScaled(p), z_plane) THEN {"Intersection behind camera"}
    ELSE {}

\* what worldToImage writes to std::cerr (line 72)
WorldToImageDiag ==
    IF ~has_calibration_ \/ ~has_pose_ THEN {"Missing calibration or pose information"}
    ELSE {}

(* A cv::Point3d used as a direction is [n, d, unit]: the vector n / d or, with unit
   set, the vector n / |n| of length one, whose coordinates are not fractions in
   general.  n is kept free of common factors when unit is set. *)
ZeroDir == [n |-> <<0, 0, 0>>, d |-> 1, unit |-> FALSE]    \* cv::Point3d(0, 0, 0)

\* lines 116-118: ray_world /= cv::norm(ray_world)
UnitAlong(v) ==
    LET g == GcdSeq(v)
    IN  IF g = 0 THEN [n |-> v, d |-> 0, unit |-> FALSE]
        ELSE [n |-> <<v[1] \div g, v[2] \div g, v[3] \div g>>, d |-> 1, unit |-> TRUE]

\* getRayDirection (lines 98-125); it writes nothing to std::cerr
GetRayDirection(p) ==
    IF ~has_calibration_ \/ ~has_pose_ THEN ZeroDir
    ELSE UnitAlong(RayWorldScaled(p))

GetRayDirectionDiag == {}

\* getCameraPosition (lines 161-173); it writes nothing to std::cerr
GetCameraPosition ==
    IF ~has_pose_ THEN Zero3
    ELSE Rat(CamPosWorld, 1)

GetCameraPositionDiag == {}

\* (variant) a failed intersection is returned as the point (0, 0, 0)
NoIntersectionZero == [some |-> TRUE, pt |-> Zero3]

\* std::nullopt (lines 141, 149)
NoIntersection == [some |-> FALSE]

\* the length scale of a direction: |n| rounded up if unit, d otherwise
DirLen(dir) == IF dir.unit THEN CeilSqrt(Dot(dir.n, dir.n)) ELSE dir.d

\* lines 137-139: |denominator| < 1e-6 for denominator = (dir.n . normal) / len, i.e.
\* |dir.n . normal| * 10^6 < len, the left side being an integer
DenominatorTiny(dir, plane_normal) ==
    Abs(Dot(dir.n, plane_normal)) <= (DirLen(dir) - 1) \div 1000000

\* line 144-145: diff.dot(plane_normal), times ray_origin.d * plane_point.d
DiffDotScaled(ray_origin, plane_normal, plane_point) ==
    Dot(<<plane_point.n[1] * ray_origin.d - ray_origin.n[1] * plane_point.d,
          plane_point.n[2] * ray_origin.d - ray_origin.n[2] * plane_point.d,
          plane_point.n[3] * ray_origin.d - ray_origin.n[3] * plane_point.d>>, plane_normal)

\* (variant) an intersection at the origin of the ray counts as behind it
TNegativeOrZero(diffDot, denominator) == diffDot * denominator <= 0

\* line 147: t = diffDot / denominator is negative
TNegative(diffDot, denominator) == diffDot * denominator < 0

\* intersectRayPlane (lines 127-159): ray_origin and plane_point are points, plane_normal
\* an integer vector, ray_direction a direction.  With t = diffDot / denominator,
\* t * ray_direction = diffDot * dir.n / (dir.n . normal): the length scale cancels.
IntersectRayPlane(ray_origin, ray_direction, plane_normal, plane_point) ==
    LET den == Dot(ray_direction.n, plane_normal)
        dd == DiffDotScaled(ray_origin, plane_normal, plane_point)
        s == ray_origin.d * plane_point.d
    IN  IF DenominatorTiny(ray_direction, plane_normal) THEN NoIntersection
        ELSE IF TNegative(dd, den) THEN NoIntersection
        ELSE [some |-> TRUE,
              pt |-> Rat(<<ray_origin.n[1] * plane_point.d * den + dd * ray_direction.n[1],
                           ray_origin.n[2] * plane_point.d * den + dd * ray_direction.n[2],
                           ray_origin.n[3] * plane_point.d * den + dd * ray_direction.n[3]>>,
                         s * den)]

----------------------------------------------------------------------------
(* CoordinateTransform: calls made on one object, in any order *)

\* Inputs: intrinsics <<fx, fy, cx, cy>>, axis-aligned rotations, integer translations,
\* integer pixels and plane heights
Intrinsics == {<<2, 2, 1, 1>>, <<1, 2, 0, 1>>}
PixelCoords == {0, 1, 3}
ZPlanes == {-1, 0, 2}
Permutations3 == {p \in [1..3 -> 1..3] : {p[1], p[2], p[3]} = 1..3}
Det(M) ==   M[1][1] * (M[2][2] * M[3][3] - M[2][3] * M[3][2])
          - M[1][2] * (M[2][1] * M[3][3] - M[2][3] * M[3][1])
          + M[1][3] * (M[2][1] * M[3][2] - M[2][2] * M[3][1])
SignedPermutation(p, sg) == [i \in 1..3 |-> [j \in 1..3 |-> IF j = p[i] THEN sg[i] ELSE 0]]
Rotations == {M \in {SignedPermutation(p, sg) : p \in Permutations3, sg \in [1..3 -> {-1, 1}]} :
                Det(M) = 1}
Translations == {<<0, 0, 0>>, <<0, 0, 1>>, <<0, 0, -1>>, <<1, -1, 2>>, <<-2, 1, 0>>}
Pixels == {<<u, v>> : u \in PixelCoords, v \in PixelCoords}
WorldPoints == {Rat(<<0, 0, 0>>, 1), Rat(<<1, 0, 2>>, 1), Rat(<<1, -1, 0>>, 2)}
RayOrigins == {Rat(<<0, 0, 0>>, 1), Rat(<<0, 0, 1>>, 1), Rat(<<1, -1, 4>>, 2)}
\* directions along and across the axes, oblique ones, ones whose dot product with a
\* normal is 1e-6 and 5e-7, and one of length one
RayDirections == {[n |-> <<1, 0, 0>>, d |-> 1, unit |-> FALSE],
                  [n |-> <<0, 0, 1>>, d |-> 1, unit |-> FALSE],
                  [n |-> <<0, 0, -1>>, d |-> 1, unit |-> FALSE],
                  [n |-> <<1, 1, -2>>, d |-> 1, unit |-> FALSE],
                  [n |-> <<1, 0, 1>>, d |-> 1000000, unit |-> FALSE],
                  [n |-> <<1, 0, -1>>, d |-> 2000000, unit |-> FALSE],
                  [n |-> <<3, 0, 4>>, d |-> 1, unit |-> TRUE]}
PlaneNormals == {<<0, 0, 1>>, <<0, 1, 1>>, <<1, 0, 0>>}
PlanePoints == {Rat(<<0, 0, 0>>, 1), Rat(<<0, 0, 2>>, 1), Rat(<<0, 0, -1>>, 1)}

svcAll == <<svcVars, obsVars>>

CtSetCalibration(camera_matrix) ==
    /\ SetCalibration(camera_matrix)
    /\ query' = NoQuery
    /\ UNCHANGED svcAll

CtSetCameraPose(rotation, translation) ==
    /\ SetCameraPose(rotation, translation)
    /\ query' = NoQuery
    /\ UNCHANGED svcAll

\* a call of imageToWorld; succeeded records whether it went through to the intersection
CtImageToWorld(p, z_plane) ==
    /\ query' = [op |-> "imageToWorld", pixel |-> p, z |-> z_plane,
                 succeeded |-> ImageToWorldSucceeds(p, z_plane),
                 world |-> ImageToWorld(p, z_plane),
                 ready |-> has_calibration_ /\ has_pose_,
                 diag |-> ImageToWorldDiag(p, z_plane)]
    /\ UNCHANGED <<svcAll, has_calibration_, has_pose_, camera_matrix_, rotation_,
                   translation_>>

\* worldToImage called on what the last imageToWorld returned
CtWorldToImageOfResult ==
    /\ query.op = "imageToWorld"
    /\ query' = [op |-> "roundTrip", pixel |-> query.pixel, z |-> query.z,
                 succeeded |-> query.succeeded, world |-> query.world,
                 image |-> WorldToImage(query.world)]
    /\ UNCHANGED <<svcAll, has_calibration_, has_pose_, camera_matrix_, rotation_,
                   translation_>>

\* a call of worldToImage
CtWorldToImage(w) ==
    /\ query' = [op |-> "worldToImage", world |-> w,
                 ready |-> has_calibration_ /\ has_pose_,
                 image |-> WorldToImage(w),
                 diag |-> WorldToImageDiag]
    /\ UNCHANGED <<svcAll, has_calibration_, has_pose_, camera_matrix_, rotation_,
                   translation_>>

\* a call of getRayDirection
CtGetRayDirection(p) ==
    /\ query' = [op |-> "getRayDirection", pixel |-> p,
                 ready |-> has_calibration_ /\ has_pose_,
                 direction |-> GetRayDirection(p),
                 diag |-> GetRayDirectionDiag]
    /\ UNCHANGED <<svcAll, has_calibration_, has_pose_, camera_matrix_, rotation_,
                   translation_>>

\* a call of getCameraPosition
CtGetCameraPosition ==
    /\ query' = [op |-> "getCameraPosition",
                 ready |-> has_pose_,
                 position |-> GetCameraPosition,
                 diag |-> GetCameraPositionDiag]
    /\ UNCHANGED <<svcAll, has_calibration_, has_pose_, camera_matrix_, rotation_,
                   translation_>>

\* a call of the static intersectRayPlane
CtIntersectRayPlane(ray_origin, ray_direction, plane_normal, plane_point) ==
    /\ query' = [op |-> "intersectRayPlane", origin |-> ray_origin,
                 direction |-> ray_direction, normal |-> plane_normal,
                 point |-> plane_point,
                 result |-> IntersectRayPlane(ray_origin, ray_direction, plane_normal,
                                              plane_point)]
    /\ UNCHANGED <<svcAll, has_calibration_, has_pose_, camera_matrix_, rotation_,
                   translation_>>

NextCT ==
    \/ \E K \in Intrinsics : CtSetCalibration(K)
    \/ \E R \in Rotations, T \in Translations : CtSetCameraPose(R, T)
    \/ \E p \in Pixels, z \in ZPlanes : CtImageToWorld(p, z)
    \/ CtWorldToImageOfResult
    \/ \E w \in WorldPoints : CtWorldToImage(w)
    \/ \E p \in Pixels : CtGetRayDirection(p)
    \/ CtGetCameraPosition
    \* the ground-plane query made through the general function
    \/ \E p \in Pixels, z \in ZPlanes :
          CtIntersectRayPlane(GetCameraPosition, GetRayDirection(p), <<0, 0, 1>>,
                              Rat(<<0, 0, z>>, 1))

SpecCT == Init /\ [][NextCT]_vars

(* The static intersectRayPlane, which reads no member, called on any inputs *)
NextRay ==
    \E o \in RayOrigins, dir \in RayDirections, n \in PlaneNormals, p0 \in PlanePoints :
        CtIntersectRayPlane(o, dir, n, p0)

SpecRay == Init /\ [][NextRay]_vars

(* AprilTagDetector::detect called on any frame, with or without a camera matrix *)
TagDetect(dets, haveMatrix) ==
    /\ detections' = dets
    /\ tags' = Detect(dets, haveMatrix)
    /\ UNCHANGED <<svcVars, iterKind, slept, bodyTime, prevBody, calls, snap, statusCount,
                   prevKind, modelWarnings, ctVars>>

NextTag == \E dets \in DetectionSeqs, haveMatrix \in BOOLEAN : TagDetect(dets, haveMatrix)

SpecTag == Init /\ [][NextTag]_vars

(* The service with the scheduling the code relies on: the loop thread keeps being
   scheduled and each of its calls returns, and the controlling thread, once inside
   stop(), goes on to its end. *)
SpecLive == Init /\ [][Next]_vars /\ WF_vars(Loop) /\ WF_vars(StopJoin) /\ WF_vars(StopRelease)

----------------------------------------------------------------------------
(* Properties of the lifecycle and of the loop *)

\* C1: stop() called while Running clears the flag, then joins, then releases: the
\* frame source is only ever closed when no loop thread exists, stop() is at its join
\* or release only with the flag cleared, and when stop() returns the loop thread has
\* exited and the frame source is closed.
C1_StopOrder ==
    /\ [](cpc \in {"stop_join", "stop_release"} => ~running_)
    /\ [](cpc = "stop_release" => lpc = "none")
    /\ [][ /\ (camOpen /\ ~camOpen' => lpc = "none" /\ cpc = "stop_release")
           /\ (cpc = "stop_release" /\ cpc' # cpc =>
                 /\ last' = "stop_done"
                 /\ lpc' = "none"
                 /\ ~camOpen'
                 /\ ~running_') ]_vars

C1_Witness ==
    /\ last = "stop_done"
    /\ cpc = "idle"
    /\ lpc = "none"
    /\ ~camOpen
    /\ total_frames_processed_ > 0

\* C2: a lifecycle call in the wrong state changes nothing: start() goes past its
\* guard only when the flag is clear, stop() only when it is set, and the step that
\* returns "already running" or returns from stop() while stopped leaves the flag, the
\* frame source, the calibration, the model, the counters and the loop thread as
\* they were.
C2_WrongStateNoop ==
    [][ /\ (cpc = "idle" /\ running_ => cpc' \in {"idle", "stop_store"})
        /\ (cpc = "idle" /\ ~running_ => cpc' \in {"idle", "start_open", "destroyed"})
        /\ (last' = "start_already_running" /\ <<last, startDiag>>' # <<last, startDiag>>
              => /\ running_
                 /\ cpc' = "idle"
                 /\ UNCHANGED <<running_, camOpen, calibValid, modelLoaded, counters,
                                loopVars, target_fps_, ctVars>>)
        /\ (cpc = "idle" /\ ~running_ /\ cpc' \in {"idle", "destroyed"}
              => /\ last' = "stop_noop"
                 /\ UNCHANGED <<running_, camOpen, calibValid, modelLoaded, counters,
                                loopVars, target_fps_, ctVars>>) ]_vars

C2_Witness ==
    /\ last = "start_already_running"
    /\ cpc = "idle"
    /\ running_
    /\ camOpen
    /\ lpc = "read"

\* C3: from Stopped, start() returns false exactly when the frame source does not
\* open, and then the service is stopped with no loop thread; once the source has
\* opened the call goes on to return true with the loop spawned, whatever the
\* calibration, the model, the class names and the messaging layer did.
C3_OnlyOpenIsFatal ==
    /\ [](last = "start_open_failed" => "open_failed" \in startDiag \/ cpc # "idle")
    /\ [](last = "start_open_failed" /\ cpc = "idle"
            => ~running_ /\ lpc = "none" /\ ~camOpen)
    /\ [](last = "start_ok" /\ cpc = "idle"
            => running_ /\ lpc # "none" /\ camOpen /\ "open_failed" \notin startDiag)
    /\ [][ /\ (cpc = "start_open" /\ cpc' = "idle"
                 => last' = "start_open_failed" /\ ~camOpen')
           /\ (cpc = "start_open" /\ ~camOpen' => cpc' = "idle")
           /\ (cpc \in {"start_calib", "start_load", "start_store"}
                 => cpc' \in {"start_calib", "start_load", "start_store", "start_spawn"}
                    /\ last' = last)
           /\ (cpc = "start_spawn" /\ cpc' # cpc
                 => cpc' = "idle" /\ last' = "start_ok" /\ running_' /\ lpc' = "init") ]_vars

C3_Witness ==
    /\ last = "start_ok"
    /\ cpc = "idle"
    /\ running_
    /\ lpc = "read"
    /\ ~calibValid
    /\ ~modelLoaded
    /\ startDiag = {"no_calibration", "model_failed", "names_failed", "zenoh_failed"}

\* C4: once stop() has cleared the flag the loop thread begins no iteration, and
\* (the loop thread being scheduled and its calls returning) stop() returns.
C4_BoundedShutdown ==
    /\ [][ cpc = "stop_join" => ~(lpc = "top" /\ lpc' = "read") ]_vars
    /\ (cpc = "stop_join" ~> (last = "stop_done" /\ cpc \in {"idle", "destroyed"}))

C4_Witness ==
    /\ cpc = "stop_join"
    /\ ~running_
    /\ lpc = "tags"

\* C5: the counters change only in steps of the loop thread, and the controlling
\* thread is at an access to the frame source (open/configure in start(), isOpened/
\* release in stop()) only while no loop thread exists.
C5_NoConcurrentAccess ==
    /\ [](cpc \in {"start_open", "stop_release"} => lpc = "none")
    /\ [][ counters' # counters
             => /\ lpc \in {"count", "tags", "objects"}
                /\ lpc' # lpc
                /\ cpc' = cpc ]_vars

C5_Witness ==
    /\ cpc = "stop_release"
    /\ camOpen
    /\ lpc = "none"
    /\ total_frames_processed_ > 0

\* C6: after an iteration that acquired a frame the loop has slept
\* max(0, frame_duration - t), t being the time that iteration's own calls took.
C6_Pacing ==
    (lpc \in {"top", "done"} /\ iterKind = "ok")
        => slept = Max(0, frame_duration - bodyTime)

\* an iteration that overran is followed by one that sleeps its full remainder
C6_Witness ==
    /\ lpc = "top"
    /\ iterKind = "ok"
    /\ prevKind = "ok"
    /\ prevBody > frame_duration
    /\ bodyTime < frame_duration
    /\ slept = frame_duration - bodyTime
    /\ slept > 0

\* C7: an iteration whose read failed has changed no counter, has called neither
\* detector, has printed no status and has slept the 100 ms backoff before coming back
\* to the test of the flag; the loop thread ends only with the flag cleared.
C7_FailedRead ==
    /\ (lpc = "backoff" => counters = snap /\ calls = {})
    /\ (lpc \in {"top", "done"} /\ iterKind = "failed"
          => counters = snap /\ calls = {} /\ slept = BackoffMs)
    /\ (lpc = "done" => ~running_)

C7_Witness ==
    /\ lpc = "top"
    /\ running_
    /\ iterKind = "failed"
    /\ prevKind = "failed"
    /\ total_frames_processed_ > 0

\* C8: no step decreases framesProcessed, markersDetected or objectsDetected.
C8_Monotonic ==
    [][ /\ total_frames_processed_' >= total_frames_processed_
        /\ total_tags_detected_' >= total_tags_detected_
        /\ total_objects_detected_' >= total_objects_detected_ ]_vars

\* a second start() has spawned its loop and the counters of the first run are kept
C8_Witness ==
    /\ cpc = "idle"
    /\ last = "start_ok"
    /\ lpc = "init"
    /\ total_frames_processed_ > 0
    /\ total_tags_detected_ > 0
    /\ total_objects_detected_ > 0

\* C9: a status summary is printed in exactly the iterations whose frame index, once
\* incremented, is a multiple of 100: an iteration that is past its status step has
\* printed one iff its index is such a multiple, a failed iteration has printed none,
\* and the number printed is the number of multiples of 100 reached.
C9_StatusCadence ==
    /\ (lpc = "pace" => (("status" \in calls) <=> frame_count_ % StatusEvery = 0))
    /\ (lpc = "backoff" => "status" \notin calls)
    /\ (lpc \in {"tags", "objects", "status"}
          => statusCount = (frame_count_ - 1) \div StatusEvery)
    /\ (lpc \notin {"tags", "objects", "status"}
          => statusCount = frame_count_ \div StatusEvery)

C9_Witness ==
    /\ lpc = "pace"
    /\ frame_count_ = 2 * StatusEvery
    /\ statusCount = 2
    /\ "status" \in calls

----------------------------------------------------------------------------
(* Properties of CoordinateTransform *)

\* C10: with calibration and pose set, worldToImage applied to the result of an
\* imageToWorld(pixel, z) that found its intersection (ray not parallel to the plane,
\* intersection in front of the camera) returns pixel.
C10_RoundTrip ==
    (query.op = "roundTrip" /\ query.succeeded) => query.image = Pixel(query.pixel)

\* the camera-frame direction of pixel p, scaled as RayWorldScaled scales it
CameraRayScaled(p) == <<(p[1] - Cx) * Fy, (p[2] - Cy) * Fx, Fx * Fy>>

\* C11: one pose convention is held by all operations: once a pose is set, the point
\* getCameraPosition returns is the ray origin imageToWorld uses and is the world point
\* worldToImage takes to the origin of the camera frame, and the rotation worldToImage
\* applies to a world offset undoes the one imageToWorld and getRayDirection apply to
\* a camera-frame direction.
C11_OneConvention ==
    (query.op = "getCameraPosition" /\ has_pose_) =>
        /\ query.position = Rat(CamPosWorld, 1)
        /\ CameraPtScaled(query.position) = <<0, 0, 0>>
        /\ has_calibration_ =>
              \A p \in Pixels :
                 CameraPtScaled(Rat(<<translation_[1] + RayWorldScaled(p)[1],
                                      translation_[2] + RayWorldScaled(p)[2],
                                      translation_[3] + RayWorldScaled(p)[3]>>, 1))
                   = CameraRayScaled(p)

\* C12: intersectRayPlane returns no intersection exactly when |direction . normal| <
\* 1e-6 or t = ((planePoint - origin) . normal) / (direction . normal) is negative;
\* otherwise, t = 0 included, it returns the point origin + t * direction: the point of
\* the plane that lies on the ray, at a parameter that is not negative.
C12_RayPlane ==
    query.op = "intersectRayPlane" =>
        LET o == query.origin
            dir == query.direction
            p0 == query.point
            dn == Dot(dir.n, query.normal)                            \* denominator * len
            tn == Dot(<<p0.n[1] * o.d - o.n[1] * p0.d, p0.n[2] * o.d - o.n[2] * p0.d,
                        p0.n[3] * o.d - o.n[3] * p0.d>>, query.normal) \* diff . normal * o.d * p0.d
            parallel == Abs(dn) * 1000000 < DirLen(dir)
            behind == (tn < 0 /\ dn > 0) \/ (tn > 0 /\ dn < 0)
            pt == query.result.pt
        IN  /\ ~query.result.some <=> (parallel \/ behind)
            /\ query.result.some =>
                  /\ pt.d > 0
                  \* pt is on the plane
                  /\ Dot(<<pt.n[1] * p0.d - p0.n[1] * pt.d, pt.n[2] * p0.d - p0.n[2] * pt.d,
                           pt.n[3] * p0.d - p0.n[3] * pt.d>>, query.normal) = 0
                  \* pt - origin = t * direction
                  /\ \A i \in 1..3 :
                        (pt.n[i] * o.d - o.n[i] * pt.d) * p0.d * dn = tn * dir.n[i] * pt.d

\* the plane passes through the origin of the ray: t = 0 and the origin is returned
C12_Witness ==
    /\ query.op = "intersectRayPlane"
    /\ query.result.some
    /\ query.result.pt = query.origin
    /\ query.origin # query.point
    /\ query.direction.d = 1000000

\* C13: a marker is flagged valid only when its pose solve converged with a finite
\* rotation: the result of every detection whose solve did not converge, or was not
\* finite, has pose_valid = false and its rotation and translation left unset.
C13_ValidOnlyIfConverged ==
    \A i \in 1..Len(tags) :
        detections[i].solve # "converged"
            => /\ ~tags[i].pose_valid
               /\ tags[i].rotation = <<>>
               /\ tags[i].translation = <<>>

\* C14: imageToWorld, worldToImage, getRayDirection and getCameraPosition, called
\* while a readiness flag they need is false, return the zero sentinel and emit a
\* diagnostic.
C14_NotReady ==
    /\ (query.op = "imageToWorld" /\ ~query.ready) => (query.world = Zero3 /\ query.diag # {})
    /\ (query.op = "worldToImage" /\ ~query.ready) => (query.image = Zero2 /\ query.diag # {})
    /\ (query.op = "getRayDirection" /\ ~query.ready)
          => (query.direction = ZeroDir /\ query.diag # {})
    /\ (query.op = "getCameraPosition" /\ ~query.ready)
          => (query.position = Zero3 /\ query.diag # {})

\* the geometric query failed
Failed(q) ==
    \/ q.op = "imageToWorld" /\ ~q.succeeded
    \/ q.op = "intersectRayPlane"
         /\ \/ DenominatorTiny(q.direction, q.normal)
            \/ TNegative(DiffDotScaled(q.origin, q.normal, q.point), Dot(q.direction.n, q.normal))

\* C15 as stated: a failing imageToWorld or intersectRayPlane returns a value that no
\* successful call (here: on the same object) returns.
C15_FailureTold ==
    /\ (query.op = "imageToWorld" /\ Failed(query))
          => ~\E p \in Pixels, z \in ZPlanes :
                 ImageToWorldSucceeds(p, z) /\ ImageToWorld(p, z) = query.world
    /\ (query.op = "intersectRayPlane" /\ Failed(query)) => ~query.result.some

\* C15 amended: intersectRayPlane returns the empty optional exactly when it fails,
\* which is told from every point; imageToWorld returns the point (0, 0, 0) and writes a
\* diagnostic when it fails, and writes none when it succeeds.
C15_FailureTold_Amended ==
    /\ query.op = "intersectRayPlane" => (Failed(query) <=> ~query.result.some)
    /\ query.op = "imageToWorld"
          => /\ Failed(query) => (query.world = Zero3 /\ query.diag # {})
             /\ ~Failed(query) => query.diag = {}

\* a failed imageToWorld on a ready transform returns (0, 0, 0), which a successful
\* call on the same transform returns too
C15_Witness ==
    /\ query.op = "imageToWorld"
    /\ query.ready
    /\ Failed(query)
    /\ query.world = Zero3
    /\ \E p \in Pixels, z \in ZPlanes : ImageToWorldSucceeds(p, z) /\ ImageToWorld(p, z) = Zero3

\* C16: a marker carries a world position only when a camera pose was supplied, and
\* then it is cameraRotation * markerTranslation + cameraTranslation; without a camera
\* pose the marker's position is left as constructed.
C16_WorldPosition ==
    \A i \in 1..Len(tags) :
        IF has_pose_ /\ tags[i].pose_valid
           THEN tags[i].position
                    = <<Dot(rotation_[1], tags[i].translation) + translation_[1],
                        Dot(rotation_[2], tags[i].translation) + translation_[2],
                        Dot(rotation_[3], tags[i].translation) + translation_[3]>>
           ELSE tags[i].position = NewResult(detections[i]).position

\* C17: a readiness error is reported once: after a start() in which the detection
\* model failed to load, the loop writes its "Model not loaded" diagnostic at most once,
\* however many iterations it runs.
C17_ReportedOnce ==
    "model_failed" \in startDiag => modelWarnings <= 1

\* C18: with calibration and pose set, imageToWorld(pixel, z) succeeds exactly when
\* intersectRayPlane(getCameraPosition(), getRayDirection(pixel), (0,0,1), (0,0,z))
\* returns a point; it then returns that point, whose z coordinate is z, and returns
\* the sentinel (0, 0, 0) otherwise.
C18_GroundPlaneCase ==
    (query.op = "imageToWorld" /\ query.ready) =>
        LET r == IntersectRayPlane(GetCameraPosition, GetRayDirection(query.pixel),
                                   <<0, 0, 1>>, Rat(<<0, 0, query.z>>, 1))
        IN  /\ query.succeeded <=> r.some
            /\ query.diag = {} <=> r.some
            /\ r.some => /\ query.world = r.pt
                          /\ query.world.n[3] = query.z * query.world.d
            /\ ~r.some => query.world = Zero3

\* a pixel off the principal point seen by a rotated, displaced camera
C18_Witness ==
    /\ query.op = "imageToWorld"
    /\ query.succeeded
    /\ query.world.d > 1
    /\ query.z = 2
    /\ rotation_[3][3] = 0
    /\ translation_ = <<1, -1, 2>>

\* C19: when start() could not open the calibration file, the CoordinateTransform has
\* neither calibration nor pose, and every marker the loop then detects is counted in
\* total_tags_detected_ and has pose_valid = false.
C19_AbsentCalibration ==
    "no_calibration" \in startDiag
        => /\ ~has_calibration_
           /\ ~has_pose_
           /\ lpc \in {"objects", "status", "pace"}
                 => /\ total_tags_detected_ = AddCount(snap[3], Len(tags))
                    /\ \A i \in 1..Len(tags) : ~tags[i].pose_valid

\* C20: the readiness flags are independent and monotone: a step that touches the
\* calibration sets hasCalibration and leaves the pose and hasPose alone, a step that
\* touches the pose sets hasPose and leaves the calibration and hasCalibration alone,
\* a query changes none of them, and no step clears a flag.
C20_FlagsIndependent ==
    [][ /\ has_calibration_ => has_calibration_'
        /\ has_pose_ => has_pose_'
        /\ (<<camera_matrix_, has_calibration_>>' # <<camera_matrix_, has_calibration_>>)
              => (has_calibration_' /\ UNCHANGED <<has_pose_, rotation_, translation_>>)
        /\ (<<rotation_, translation_, has_pose_>>' # <<rotation_, translation_, has_pose_>>)
              => (has_pose_' /\ UNCHANGED <<has_calibration_, camera_matrix_>>)
        /\ query'.op # "none"
              => UNCHANGED <<has_calibration_, has_pose_, camera_matrix_, rotation_,
                             translation_>> ]_vars

\* both setters have been called, the calibration twice, and a query made
C20_Witness ==
    /\ has_calibration_
    /\ has_pose_
    /\ camera_matrix_ = <<1, 2, 0, 1>>
    /\ translation_ = <<-2, 1, 0>>
    /\ query.op = "getRayDirection"
    /\ query.ready

\* C22: the controlling thread never has more than one loop thread: start() reaches
\* the creation of the thread only when none exists, so it never assigns over a thread
\* that was not joined and the process is never terminated for it; that step creates
\* one thread at its beginning with the flag set; a loop thread appears in no other
\* step; and whenever a loop thread exists the frame source is open.
C22_OneLoopThread ==
    /\ [](cpc # "terminated")
    /\ [](cpc = "start_spawn" => lpc = "none" /\ running_)
    /\ [](lpc # "none" => camOpen)
    /\ [][ /\ (cpc = "start_spawn" /\ cpc' # cpc) => (lpc = "none" /\ lpc' = "init")
           /\ (lpc = "none" /\ lpc' # "none") => (cpc = "start_spawn" /\ lpc' = "init") ]_vars

\* a second start() after a stop(): a fresh loop thread, frames counted by the first
C22_Witness ==
    /\ lpc = "init"
    /\ last = "start_ok"
    /\ cpc = "idle"
    /\ running_
    /\ camOpen
    /\ total_frames_processed_ > 0

\* C23: frame_count_ and total_frames_processed_ are equal in every state, so the
\* average fps of every status summary is target_fps_, whatever time the iterations
\* really took.
C23_AverageIsTarget ==
    /\ frame_count_ = total_frames_processed_
    /\ (lpc = "pace" /\ "status" \in calls)
          => LET avg == AverageFps(total_frames_processed_, frame_count_, target_fps_)
             IN  /\ avg.d # 0
                 /\ avg.n = target_fps_ * avg.d

\* a summary printed after 100 frames that really came at less than 29 per second
C23_Witness ==
    /\ lpc = "pace"
    /\ "status" \in calls
    /\ frame_count_ = StatusEvery
    /\ target_fps_ = DefaultFps
    /\ frame_count_ * 1000 < 29 * now

\* C21: for every rate that reaches setFrameRate, the 0 that atoi gives for text that
\* is no number included, the loop is entered with a rate it can divide by, and the
\* period 1000 / target_fps_ it then works with is not negative.
C21_PeriodDefined ==
    /\ lpc = "init" => target_fps_ # 0
    /\ lpc \notin {"none", "init"} => frame_duration >= 0

====
